---- MODULE Spec2Model ----
(***************************************************************************)
(* Bookstore ledger of src/models/models.py: the tables customer,          *)
(* transaction, category, books and association_books_transactions, the    *)
(* factory Transaction.create_transaction, Books.add_book, the property    *)
(* Transaction.total_cost and the validators of Customer.                  *)
(*                                                                         *)
(* Several request threads (Callers) run the class methods against one     *)
(* database.  A method is cut into steps at its database accesses: the     *)
(* query (Query.get, first_or_404) and the commit.  Everything a method    *)
(* does between two database accesses is local and belongs to the step.    *)
(*                                                                         *)
(* Strings are sequences of one-character strings.  Costs are Python       *)
(* floats; the model keeps to multiples of 0.125, which a binary float     *)
(* holds exactly, written as an integer number of thousandths (125 is      *)
(* 0.125), so that sums are exact and round(x, 2) is decided by the        *)
(* decimal value.  A rounded total is an integer number of hundredths.     *)
(***************************************************************************)
EXTENDS Integers, Sequences, FiniteSets, Bags

\* ---------------------------------------------------------------- bounds
MaxCalls == 2          \* class-method calls in one behaviour
MaxLen == 2            \* length of a book list handed to create_transaction
MaxClock == 1          \* readings of datetime.now() after the first
NSeedBooks == 11       \* Books rows already in the catalogue
MaxEmailLen == 2       \* length of an email handed to Customer
MaxPhoneLen == 3       \* length of a phone number handed to Customer

\* the request threads
Callers == {1, 2}
\* the (customer_id, currency_id) pairs a caller may supply
Parties == {<<1, 1>>, <<2, 2>>}
\* the books a caller puts into a transaction, each a persisted Books object
\* named by its id: ids whose decimal renderings overlap ("1", "11") and so
\* exercise the concatenation.  A list may be empty and may repeat a book.
Basket == {1, 11}
\* ISBN values handed to add_book: 0 is carried by no seeded row, 1 is the
\* ISBN of the seeded book 1
ISBNInputs == {0, 1}
CategoryInputs == {"horrors", "poetry"}
CostInputs == {375}
EmailChars == {"a", "@"}
\* "sup2" stands for the character SUPERSCRIPT TWO (U+00B2)
PhoneChars == {"8", "+", "7", "9", "a", "sup2"}

SeqsUpTo(S, n) == UNION {[1 .. k -> S] : k \in 0 .. n}

VARIABLES
    now,                 \* the clock datetime.now() reads
    category,            \* table category: set of rows
    books,               \* table books: set of rows
    transaction,         \* table transaction: bag of rows
    books_transactions,  \* table association_books_transactions: bag of rows
    pc,                  \* per caller: where it stands in its method
    frame,               \* per caller: the method, its arguments and locals
    ret,                 \* per caller: what the method returned or raised
    ncalls,              \* calls started so far
    cust_args,           \* arguments of the last Customer(...) call
    cust_obj             \* what that call produced

vars == <<now, category, books, transaction, books_transactions, pc, frame, ret,
          ncalls, cust_args, cust_obj>>
db == <<category, books, transaction, books_transactions>>
customer_vars == <<cust_args, cust_obj>>

\* ------------------------------------------------------ strings and hash
DigitChar(d) == <<"0", "1", "2", "3", "4", "5", "6", "7", "8", "9">>[d + 1]

\* str(n) of a non-negative int: its decimal rendering
RECURSIVE str(_)
str(n) == IF n < 10 THEN <<DigitChar(n)>> ELSE str(n \div 10) \o <<DigitChar(n % 10)>>

\* ''.join(str(b.id) for b in books)
RECURSIVE join_ids(_)
join_ids(bks) == IF bks = <<>> THEN <<>> ELSE str(Head(bks)) \o join_ids(Tail(bks))

\* hashlib.md5(data).hexdigest(): the digest is taken to be collision free on
\* the short inputs of the model, so it is the input under a tag
md5_hexdigest(data) == <<"md5:">> \o data

TxHash(bks) == md5_hexdigest(join_ids(bks))

\* ------------------------------------------------------------------ rows
\* Category(name), with the id the table's autoincrement gave it
CategoryRow(id, name) == [id |-> id, name |-> name]

\* Books(ISBN, category_id, cost, currency_id, description=None)
Books__init__(ISBN, category_id, cost, currency_id) ==
    [ISBN |-> ISBN, category_id |-> category_id, cost |-> cost,
     description |-> "None", currency_id |-> currency_id]

\* a Books object once the insert gave it its primary key
BooksRow(id, obj) ==
    [id |-> id, ISBN |-> obj.ISBN, category_id |-> obj.category_id, cost |-> obj.cost,
     description |-> obj.description, currency_id |-> obj.currency_id]

\* Transaction(transaction_hash, customer_id, currency_id, books): the column
\* values and the relationship list self.books, in the order appended
Transaction__init__(transaction_hash, customer_id, currency_id, bks) ==
    [row |-> [transaction_hash |-> transaction_hash, customer_id |-> customer_id,
              date |-> now, currency_id |-> currency_id],
     books |-> bks]

\* what Query.get gives when no row has the key
None == [transaction_hash |-> <<>>, customer_id |-> 0, date |-> -1, currency_id |-> 0]

\* the rows of association_books_transactions that a flush writes for self.books
RECURSIVE association_rows(_, _)
association_rows(transaction_hash, bks) ==
    IF bks = <<>> THEN EmptyBag
    ELSE SetToBag({[transaction_id |-> transaction_hash, book_id |-> Head(bks)]})
         (+) association_rows(transaction_hash, Tail(bks))

\* -------------------------------------------------------------- database
\* the catalogue the program starts on, seeded as the __main__ block seeds it:
\* the three categories, and NSeedBooks books inserted one after the other, so
\* that autoincrement numbered them 1 .. NSeedBooks; book i has ISBN i and
\* costs i * 0.125
SeedCategories ==
    {CategoryRow(1, "horrors"), CategoryRow(2, "business"), CategoryRow(3, "comix")}
SeedBooks ==
    {BooksRow(i, Books__init__(i, ((i - 1) % 3) + 1, 125 * i, 1)) : i \in 1 .. NSeedBooks}

RowsWithHash(h) == {r \in BagToSet(transaction) : r.transaction_hash = h}
\* how many rows of the table carry the hash
CountWithHash(h) == BagCardinality([r \in RowsWithHash(h) |-> CopiesIn(r, transaction)])

\* a lookup that never finds the row
query_get_miss(h) == None

\* Transaction.query.get(transaction_hash): the row with that primary key
query_get(h) == IF RowsWithHash(h) = {} THEN None ELSE CHOOSE r \in RowsWithHash(h) : TRUE

\* a column without the uniqueness constraint
transaction_hash_not_unique(h) == FALSE

\* transaction_hash is primary_key=True, unique=True: an insert of a second
\* row with the same hash is refused
transaction_hash_taken(h) == RowsWithHash(h) # {}

\* a query without the filter on the name
category_filter_any(name) == category

\* Category.query.filter(Category.name == name).first(): the matching rows
category_filter(name) == {c \in category : c.name = name}

\* ISBN is unique=True
ISBN_taken(ISBN) == \E b \in books : b.ISBN = ISBN

\* autoincrement primary key of books
next_book_id == IF books = {} THEN 1
                ELSE (CHOOSE i \in {b.id : b \in books} : \A b \in books : b.id <= i) + 1

\* ------------------------------------------------------------ total_cost
\* sum(book.cost for book in self.books): self.books is loaded through the
\* association table, one entry per association row
RECURSIVE sum_costs(_, _)
sum_costs(h, pairs) ==
    IF pairs = {} THEN 0
    ELSE LET p == CHOOSE x \in pairs : TRUE
             b == CHOOSE x \in books : x.id = p.book_id
         IN  (IF p.transaction_id = h THEN CopiesIn(p, books_transactions) * b.cost ELSE 0)
             + sum_costs(h, pairs \ {p})

\* rounding that sends a tie upwards
round2_half_up(x) == (x + 5) \div 10

\* round(x, 2) of a non-negative float that is exact in binary: thousandths to
\* hundredths, a tie going to the even neighbour
round2(x) ==
    LET q == x \div 10
        r == x % 10
    IN  IF r < 5 THEN q
        ELSE IF r > 5 THEN q + 1
        ELSE IF q % 2 = 0 THEN q ELSE q + 1

total_cost(h) == round2(sum_costs(h, BagToSet(books_transactions)))

\* ------------------------------------------------------- caller's state
NoFrame ==
    [op |-> "none", customer_id |-> 0, currency_id |-> 0, books |-> <<>>,
     transaction_hash |-> <<>>, ISBN |-> 0, category |-> "", cost |-> 0, category_id |-> 0]
NoRet == [kind |-> "none", trans |-> None, value |-> 0]
Returned(kind, trans, value) == [kind |-> kind, trans |-> trans, value |-> value]

Init ==
    /\ now = 0
    /\ category = SeedCategories
    /\ books = SeedBooks
    /\ transaction = EmptyBag
    /\ books_transactions = EmptyBag
    /\ pc = [c \in Callers |-> "idle"]
    /\ frame = [c \in Callers |-> NoFrame]
    /\ ret = [c \in Callers |-> NoRet]
    /\ ncalls = 0
    /\ cust_args = [name |-> <<>>, email |-> <<>>, phone_number |-> <<>>]
    /\ cust_obj = "none"

\* --------------------------------------------------- create_transaction
\* a factory that refreshes the found row with the customer and currency supplied
create_transaction_get_upsert(c, customer_id, currency_id, bks) ==
    /\ pc[c] = "idle"
    /\ ncalls < MaxCalls
    /\ ncalls' = ncalls + 1
    /\ LET transaction_hash == TxHash(bks)
           trans == query_get(transaction_hash)
           fresh == [trans EXCEPT !.customer_id = customer_id, !.currency_id = currency_id]
       IN  /\ frame' = [frame EXCEPT ![c] =
                          [NoFrame EXCEPT !.op = "create_transaction",
                                          !.customer_id = customer_id,
                                          !.currency_id = currency_id,
                                          !.books = bks,
                                          !.transaction_hash = transaction_hash]]
           /\ IF trans # None
              THEN /\ pc' = [pc EXCEPT ![c] = "done"]
                   /\ ret' = [ret EXCEPT ![c] = Returned("Transaction", fresh, 0)]
                   /\ transaction' = (transaction (-) SetToBag({trans})) (+) SetToBag({fresh})
              ELSE /\ pc' = [pc EXCEPT ![c] = "ct_commit"]
                   /\ ret' = ret
                   /\ transaction' = transaction
    /\ UNCHANGED <<now, category, books, books_transactions, customer_vars>>

\* lines 85-88 and, when the row is found, 92: compute the hash, look the row up
create_transaction_get(c, customer_id, currency_id, bks) ==
    /\ pc[c] = "idle"
    /\ ncalls < MaxCalls
    /\ ncalls' = ncalls + 1
    /\ LET transaction_hash == TxHash(bks)
           trans == query_get(transaction_hash)
       IN  /\ frame' = [frame EXCEPT ![c] =
                          [NoFrame EXCEPT !.op = "create_transaction",
                                          !.customer_id = customer_id,
                                          !.currency_id = currency_id,
                                          !.books = bks,
                                          !.transaction_hash = transaction_hash]]
           /\ IF trans # None
              THEN /\ pc' = [pc EXCEPT ![c] = "done"]
                   /\ ret' = [ret EXCEPT ![c] = Returned("Transaction", trans, 0)]
              ELSE /\ pc' = [pc EXCEPT ![c] = "ct_commit"]
                   /\ ret' = ret
    /\ UNCHANGED <<now, db, customer_vars>>

\* lines 89-92: construct, add, commit, return
create_transaction_commit(c) ==
    /\ pc[c] = "ct_commit"
    /\ LET f == frame[c]
           trans == Transaction__init__(f.transaction_hash, f.customer_id, f.currency_id,
                                        f.books)
       IN  IF transaction_hash_taken(f.transaction_hash)
           THEN /\ ret' = [ret EXCEPT ![c] = Returned("IntegrityError", None, 0)]
                /\ UNCHANGED <<transaction, books_transactions>>
           ELSE /\ transaction' = transaction (+) SetToBag({trans.row})
                /\ books_transactions' =
                       books_transactions (+) association_rows(f.transaction_hash, trans.books)
                /\ ret' = [ret EXCEPT ![c] = Returned("Transaction", trans.row, 0)]
    /\ pc' = [pc EXCEPT ![c] = "done"]
    /\ UNCHANGED <<now, category, books, frame, ncalls, customer_vars>>

\* ------------------------------------------------------------- add_book
\* lines 131-132: resolve the category by name, or abort with 404
add_book_query(c, ISBN, name, cost, currency_id) ==
    /\ pc[c] = "idle"
    /\ ncalls < MaxCalls
    /\ ncalls' = ncalls + 1
    /\ LET found == category_filter(name)
       IN  IF found = {}
           THEN /\ frame' = [frame EXCEPT ![c] =
                               [NoFrame EXCEPT !.op = "add_book", !.ISBN = ISBN,
                                               !.category = name, !.cost = cost,
                                               !.currency_id = currency_id]]
                /\ pc' = [pc EXCEPT ![c] = "done"]
                /\ ret' = [ret EXCEPT ![c] = Returned("NotFound", None, 0)]
           ELSE /\ frame' = [frame EXCEPT ![c] =
                               [NoFrame EXCEPT !.op = "add_book", !.ISBN = ISBN,
                                               !.category = name, !.cost = cost,
                                               !.currency_id = currency_id,
                                               !.category_id =
                                                   (CHOOSE x \in found : TRUE).id]]
                /\ pc' = [pc EXCEPT ![c] = "ab_commit"]
                /\ ret' = ret
    /\ UNCHANGED <<now, db, customer_vars>>

\* lines 133-135: construct the Books object, add, commit
add_book_commit(c) ==
    /\ pc[c] = "ab_commit"
    /\ LET f == frame[c]
           book == Books__init__(f.ISBN, f.category_id, f.cost, f.currency_id)
       IN  IF ISBN_taken(f.ISBN)
           THEN /\ ret' = [ret EXCEPT ![c] = Returned("IntegrityError", None, 0)]
                /\ books' = books
           ELSE /\ books' = books \cup {BooksRow(next_book_id, book)}
                /\ ret' = [ret EXCEPT ![c] = Returned("None", None, 0)]
    /\ pc' = [pc EXCEPT ![c] = "done"]
    /\ UNCHANGED <<now, category, transaction, books_transactions, frame, ncalls,
                   customer_vars>>

\* the request is over: the thread takes the next one
Finish(c) ==
    /\ pc[c] = "done"
    /\ pc' = [pc EXCEPT ![c] = "idle"]
    /\ frame' = [frame EXCEPT ![c] = NoFrame]
    /\ ret' = [ret EXCEPT ![c] = NoRet]
    /\ UNCHANGED <<now, db, ncalls, customer_vars>>

\* time passes between two readings of datetime.now()
Tick ==
    /\ now < MaxClock
    /\ now' = now + 1
    /\ UNCHANGED <<db, pc, frame, ret, ncalls, customer_vars>>

\* ----------------------------------------------------- cost of a book
\* the administration changes the price of a catalogue entry (Books.cost is
\* a plain mutable column)
set_cost(id, cost) ==
    /\ \E b \in books : b.id = id /\ b.cost # cost
    /\ books' = {IF b.id = id THEN [b EXCEPT !.cost = cost] ELSE b : b \in books}
    /\ UNCHANGED <<now, category, transaction, books_transactions, pc, frame, ret, ncalls,
                   customer_vars>>

\* a caller reads trans.total_cost of a persisted Transaction (lines 72-74)
read_total_cost(c, trans) ==
    /\ pc[c] = "idle"
    /\ trans \in BagToSet(transaction)
    /\ frame' = [frame EXCEPT ![c] =
                   [NoFrame EXCEPT !.op = "total_cost",
                                   !.transaction_hash = trans.transaction_hash]]
    /\ ret' = [ret EXCEPT ![c] = Returned("float", trans, total_cost(trans.transaction_hash))]
    /\ pc' = [pc EXCEPT ![c] = "done"]
    /\ UNCHANGED <<now, db, ncalls, customer_vars>>

\* ------------------------------------------------------------- Customer
in(ch, s) == \E i \in DOMAIN s : s[i] = ch

startswith(s, prefix) ==
    /\ Len(s) >= Len(prefix)
    /\ \A i \in DOMAIN prefix : s[i] = prefix[i]

DecimalDigits == {"0", "1", "2", "3", "4", "5", "6", "7", "8", "9"}

\* str.isdigit(): at least one character and every character a digit; the
\* digits of str.isdigit are the decimal digits and the other characters of
\* Unicode type Digit, SUPERSCRIPT TWO among them
isdigit(s) == Len(s) > 0 /\ \A i \in DOMAIN s : s[i] \in DecimalDigits \cup {"sup2"}

\* assert '@' in address
validate_email(address) == in("@", address)

\* assert number.startswith('8') or number.startswith('+7')
\* if number.startswith('+'): assert number[1:].isdigit()
validate_phone_number(number) ==
    /\ startswith(number, <<"8">>) \/ startswith(number, <<"+", "7">>)
    /\ startswith(number, <<"+">>) => isdigit(Tail(number))

\* Customer(name, email, phone_number): the assignments run the validators
Customer__init__(name, email, phone_number) ==
    /\ cust_obj = "none"
    /\ cust_args' = [name |-> name, email |-> email, phone_number |-> phone_number]
    /\ cust_obj' = IF validate_email(email) /\ validate_phone_number(phone_number)
                   THEN "Customer" ELSE "AssertionError"
    /\ UNCHANGED <<now, db, pc, frame, ret, ncalls>>

\* the caller drops the object, or the exception it got, and may construct again
Discard ==
    /\ cust_obj # "none"
    /\ cust_obj' = "none"
    /\ cust_args' = [name |-> <<>>, email |-> <<>>, phone_number |-> <<>>]
    /\ UNCHANGED <<now, db, pc, frame, ret, ncalls>>

\* ------------------------------------------------------- specifications
\* the ledger under concurrent request threads
Next ==
    \/ \E c \in Callers, party \in Parties, bks \in SeqsUpTo(Basket, MaxLen) :
          create_transaction_get(c, party[1], party[2], bks)
    \/ \E c \in Callers : create_transaction_commit(c)
    \/ \E c \in Callers, ISBN \in ISBNInputs, name \in CategoryInputs, cost \in CostInputs :
          add_book_query(c, ISBN, name, cost, 1)
    \/ \E c \in Callers : add_book_commit(c)
    \/ \E c \in Callers : Finish(c)
    \/ Tick

Spec == Init /\ [][Next]_vars

\* the ledger when requests are served one after the other: a thread moves
\* only while no other thread is inside a method
Quiet(c) == \A d \in Callers \ {c} : pc[d] \in {"idle", "done"}

SeqNext ==
    \/ \E c \in Callers, party \in Parties, bks \in SeqsUpTo(Basket, MaxLen) :
          Quiet(c) /\ create_transaction_get(c, party[1], party[2], bks)
    \/ \E c \in Callers : Quiet(c) /\ create_transaction_commit(c)
    \/ \E c \in Callers, ISBN \in ISBNInputs, name \in CategoryInputs, cost \in CostInputs :
          Quiet(c) /\ add_book_query(c, ISBN, name, cost, 1)
    \/ \E c \in Callers : Quiet(c) /\ add_book_commit(c)
    \/ \E c \in Callers : Finish(c)
    \/ Tick

SeqSpec == Init /\ [][SeqNext]_vars

\* transactions, price changes and reads of total_cost
CostNext ==
    \/ \E c \in Callers, party \in Parties, bks \in SeqsUpTo(Basket, MaxLen) :
          create_transaction_get(c, party[1], party[2], bks)
    \/ \E c \in Callers : create_transaction_commit(c)
    \/ \E c \in Callers : Finish(c)
    \/ \E id \in Basket, cost \in CostInputs : set_cost(id, cost)
    \/ \E c \in Callers, trans \in BagToSet(transaction) : read_total_cost(c, trans)

CostSpec == Init /\ [][CostNext]_vars

\* construction of Customer objects
CustomerNext ==
    \/ \E email \in SeqsUpTo(EmailChars, MaxEmailLen),
          phone_number \in SeqsUpTo(PhoneChars, MaxPhoneLen) :
           Customer__init__(<<"x">>, email, phone_number)
    \/ Discard

CustomerSpec == Init /\ [][CustomerNext]_vars

\* ---------------------------------------------------------- properties
\* a caller whose create_transaction call is over
Called(c) == pc[c] = "done" /\ frame[c].op = "create_transaction"
\* a caller whose create_transaction call returned a Transaction
Got(c) == Called(c) /\ ret[c].kind = "Transaction"

\* C1 (SeqSpec): two create_transaction calls made one after the other with the
\* same book-id sequence, whatever customer_id and currency_id they carry, both
\* return a Transaction, with the same transaction_hash and the same record, and
\* that record is the one row of the table with that hash.
C1_SequentialIdempotence ==
    \A c1 \in Callers : \A c2 \in Callers \ {c1} :
        (Called(c1) /\ Called(c2) /\ frame[c1].books = frame[c2].books) =>
            /\ ret[c1].kind = "Transaction"
            /\ ret[c2].kind = "Transaction"
            /\ ret[c1].trans.transaction_hash = ret[c2].trans.transaction_hash
            /\ ret[c1].trans = ret[c2].trans
            /\ ret[c1].trans \in BagToSet(transaction)
            /\ CountWithHash(ret[c1].trans.transaction_hash) = 1

\* C1 witness: two finished calls with one book list and different customers
\* that hold the same record
C1_Witness ==
    \E c1 \in Callers : \E c2 \in Callers \ {c1} :
        /\ Got(c1) /\ Got(c2)
        /\ frame[c1].books = frame[c2].books
        /\ frame[c1].books # <<>>
        /\ frame[c1].customer_id # frame[c2].customer_id
        /\ ret[c1].trans = ret[c2].trans

\* C2 (Spec): under every interleaving the table holds at most one row per
\* transaction_hash, and once concurrent calls with one book sequence are over
\* it holds exactly one row with their hash.
C2_OneRowPerHash ==
    /\ \A r \in BagToSet(transaction) : CountWithHash(r.transaction_hash) = 1
    /\ \A c1 \in Callers : \A c2 \in Callers \ {c1} :
           (Called(c1) /\ Called(c2) /\ frame[c1].books = frame[c2].books) =>
               CountWithHash(frame[c1].transaction_hash) = 1

\* C2 witness: two calls with one book sequence raced on the insert (the loser's
\* commit was refused) and one row is there
C2_Witness ==
    \E c1 \in Callers : \E c2 \in Callers \ {c1} :
        /\ Got(c1) /\ Called(c2)
        /\ frame[c1].books = frame[c2].books
        /\ ret[c2].kind = "IntegrityError"
        /\ CountWithHash(frame[c1].transaction_hash) = 1

\* C3 (Spec), as claimed: no create_transaction call ends with the
\* unique-constraint error; every caller of a raced sequence returns the record.
C3_RaceRecovered ==
    \A c \in Callers : Called(c) => ret[c].kind = "Transaction"

\* C4 (Spec), as claimed: calls on [bookA, bookB] and on [bookB, bookA], the two
\* books distinct, return records with different transaction_hash.
C4_OrderSensitive ==
    \A c1 \in Callers : \A c2 \in Callers \ {c1} :
        ( /\ Got(c1) /\ Got(c2)
          /\ Len(frame[c1].books) = 2
          /\ frame[c1].books[1] # frame[c1].books[2]
          /\ frame[c2].books = <<frame[c1].books[2], frame[c1].books[1]>> ) =>
            ret[c1].trans.transaction_hash # ret[c2].trans.transaction_hash

\* C5 (Spec), as claimed: two calls whose book-id sequences differ never return
\* the same Transaction.
C5_OnePerSequence ==
    \A c1 \in Callers : \A c2 \in Callers \ {c1} :
        (Got(c1) /\ Got(c2) /\ frame[c1].books # frame[c2].books) =>
            ret[c1].trans # ret[c2].trans

\* C6 (Spec): a create_transaction call that finds its hash in the table (it
\* goes from the call to its return in one step) returns the row of the table
\* with that hash and changes no table: rows, association pairs and the row's
\* customer_id, currency_id and date stay as they were.
C6_FoundBranchFrame ==
    [][\A c \in Callers :
          (pc[c] = "idle" /\ pc'[c] = "done" /\ frame'[c].op = "create_transaction") =>
              /\ transaction' = transaction
              /\ books_transactions' = books_transactions
              /\ books' = books
              /\ category' = category
              /\ ret'[c].kind = "Transaction"
              /\ ret'[c].trans \in BagToSet(transaction)
              /\ ret'[c].trans.transaction_hash = frame'[c].transaction_hash]_vars

\* C6 witness: a call returned a record created earlier for another customer
\* and currency
C6_Witness ==
    \E c \in Callers :
        /\ Got(c)
        /\ ret[c].trans \in BagToSet(transaction)
        /\ ret[c].trans.customer_id # frame[c].customer_id
        /\ ret[c].trans.currency_id # frame[c].currency_id
        /\ ret[c].trans.date < now

\* C7 (Spec), as claimed: every row of the transaction table has at least one
\* association row.
C7_NonEmptyBookSet ==
    \A r \in BagToSet(transaction) :
        \E p \in BagToSet(books_transactions) : p.transaction_id = r.transaction_hash

\* the sum of the cost of the books associated with hash h, counted book by book
RECURSIVE SumOverBooks(_, _)
SumOverBooks(h, bs) ==
    IF bs = {} THEN 0
    ELSE LET b == CHOOSE x \in bs : TRUE
         IN  CopiesIn([transaction_id |-> h, book_id |-> b.id], books_transactions) * b.cost
             + SumOverBooks(h, bs \ {b})

\* v hundredths is s thousandths rounded to 2 places, a tie going to even
IsRounded(v, s) ==
    /\ 10 * v - s \in -5 .. 5
    /\ (10 * v - s \in {-5, 5}) => v % 2 = 0

\* C8 (CostSpec): every read of total_cost returns the sum of the current cost
\* of the books currently associated with the transaction, rounded to 2 decimal
\* places; nothing is kept from an earlier read.
C8_TotalCostIsRoundedSum ==
    [][\A c \in Callers :
          (pc[c] = "idle" /\ pc'[c] = "done" /\ frame'[c].op = "total_cost") =>
              IsRounded(ret'[c].value, SumOverBooks(frame'[c].transaction_hash, books))]_vars

\* C8 witness: two reads of one transaction's total_cost, a price change between
\* them, gave different totals
C8_Witness ==
    \E c1 \in Callers : \E c2 \in Callers \ {c1} :
        /\ pc[c1] = "done" /\ frame[c1].op = "total_cost"
        /\ pc[c2] = "done" /\ frame[c2].op = "total_cost"
        /\ frame[c1].transaction_hash = frame[c2].transaction_hash
        /\ ret[c1].value # ret[c2].value
        /\ IsRounded(ret[c2].value, SumOverBooks(frame[c2].transaction_hash, books))

NameExists(name) == \E k \in category : k.name = name

\* the part of C9 about a category name that is not there, and about the
\* tables add_book never writes
C9_QueryStep(c) ==
    (pc[c] = "idle" /\ frame'[c].op = "add_book") =>
        /\ db' = db
        /\ IF NameExists(frame'[c].category)
           THEN pc'[c] = "ab_commit"
           ELSE pc'[c] = "done" /\ ret'[c].kind = "NotFound"

\* add_book's commit put exactly one new row into books, with the id of the
\* category of that name
C9_OneNewRow(c) ==
    /\ \E row \in books' :
           /\ row \notin books
           /\ books' = books \cup {row}
           /\ row.ISBN = frame[c].ISBN
           /\ \E k \in category : k.name = frame[c].category /\ k.id = row.category_id
    /\ ret'[c].kind = "None"
    /\ <<category, transaction, books_transactions>>' =
           <<category, transaction, books_transactions>>

\* C9 (Spec), as claimed: add_book with a missing category name ends in NotFound
\* and changes no table; with an existing name it persists exactly one new Books
\* row with that category's id.
C9_AddBookAsClaimed ==
    [][\A c \in Callers :
          /\ C9_QueryStep(c)
          /\ (pc[c] = "ab_commit" /\ pc'[c] = "done") => C9_OneNewRow(c)]_vars

\* C9 (Spec), amended: add_book with a missing category name ends in NotFound
\* and changes no table; with an existing name it persists exactly one new Books
\* row with that category's id, unless a Books row with the same ISBN is there
\* when it commits: then it ends in the unique-constraint error and changes no
\* table.
C9_AddBook ==
    [][\A c \in Callers :
          /\ C9_QueryStep(c)
          /\ (pc[c] = "ab_commit" /\ pc'[c] = "done") =>
                 IF \E b \in books : b.ISBN = frame[c].ISBN
                 THEN db' = db /\ ret'[c].kind = "IntegrityError"
                 ELSE C9_OneNewRow(c)]_vars

\* C9 witness: one add_book call ended in NotFound, another added its row
C9_Witness ==
    \E c1 \in Callers : \E c2 \in Callers \ {c1} :
        /\ pc[c1] = "done" /\ frame[c1].op = "add_book" /\ ret[c1].kind = "NotFound"
        /\ pc[c2] = "done" /\ frame[c2].op = "add_book" /\ ret[c2].kind = "None"
        /\ books = SeedBooks \cup {b \in books : b.ISBN = frame[c2].ISBN}
        /\ Cardinality(books) = NSeedBooks + 1

\* the condition C10 gives for a Customer to be constructed
C10_Condition(email, phone_number) ==
    /\ in("@", email)
    /\ startswith(phone_number, <<"8">>) \/ startswith(phone_number, <<"+", "7">>)
    /\ startswith(phone_number, <<"+">>) =>
           \A i \in 2 .. Len(phone_number) : phone_number[i] \in DecimalDigits

\* C10 (CustomerSpec), as claimed: construction succeeds exactly when the email
\* contains '@' and the phone number starts with '8' or '+7' and, if it starts
\* with '+', every remaining character is a decimal digit.
C10_ValidationExact ==
    cust_obj # "none" =>
        (cust_obj = "Customer" <=> C10_Condition(cust_args.email, cust_args.phone_number))

====
